---- MODULE Spec2Model ----
(***************************************************************************)
(* Model of Bill Basket (src/src/App.tsx): the price extractor, the basket *)
(* ledger with its derived totals, and the asynchronous camera / OCR /     *)
(* barcode flows of the App component.                                     *)
(*                                                                         *)
(* Texts are sequences of one-character strings.  JavaScript numbers are   *)
(* exact decimals [kind |-> "num", m, e] standing for m / 10^e, kept       *)
(* normalised (no trailing fraction zero), so that "5.50" and "5.5" parse  *)
(* to the same value; NaN and null are records of the same shape.          *)
(***************************************************************************)
EXTENDS Integers, Sequences, FiniteSets, TLC

(***************************************************************************)
(* Bounds of the model.                                                    *)
(***************************************************************************)
\* longest text handed to extractPrice in the extractor specification
MaxLen == 5
\* most items the basket holds
MaxBasket == 2
\* how many of the catalog buttons, from the first, are clicked
MaxCatalog == 2
\* how many milliseconds the clock advances
MaxTick == 1
\* most pending getUserMedia requests of requestCameraPermission, and most
\* recognitions in progress
MaxPending == 1
\* most pending getUserMedia requests of startBarcodeScanner, and most pending
\* barcode decodes
MaxDecodes == 2
\* most camera streams alive at a time
MaxStreams == 3
\* most OCR workers alive at a time
MaxWorkers == 1
\* most pixels of a captured frame (width * height)
MaxPixels == 2
\* how many times in a row the preprocessing loop is run over one image
MaxPasses == 2

(***************************************************************************)
(* Decimal numbers.                                                        *)
(***************************************************************************)
RECURSIVE Pow10(_)
Pow10(n) == IF n = 0 THEN 1 ELSE 10 * Pow10(n - 1)

RECURSIVE Normalize(_, _)
Normalize(m, e) ==
    IF e > 0 /\ m % 10 = 0 THEN Normalize(m \div 10, e - 1)
    ELSE [kind |-> "num", m |-> m, e |-> e]

NaN == [kind |-> "NaN", m |-> 0, e |-> 0]

null == [kind |-> "null", m |-> 0, e |-> 0]

isNaN(v) == v.kind = "NaN"

Int2Num(n) == Normalize(n, 0)

MaxE(a, b) == IF a.e > b.e THEN a.e ELSE b.e

\* a < b on two numbers
NumLess(a, b) == a.m * Pow10(b.e) < b.m * Pow10(a.e)

NumAdd(a, b) ==
    Normalize(a.m * Pow10(MaxE(a, b) - a.e) + b.m * Pow10(MaxE(a, b) - b.e), MaxE(a, b))

NumSub(a, b) ==
    Normalize(a.m * Pow10(MaxE(a, b) - a.e) - b.m * Pow10(MaxE(a, b) - b.e), MaxE(a, b))

NumMul(a, b) == Normalize(a.m * b.m, a.e + b.e)

\* a / 100
NumDiv100(a) == Normalize(a.m, a.e + 2)

(***************************************************************************)
(* The binary64 arithmetic the totals are computed in (IEEE 754 double,    *)
(* round to nearest, ties to even).  A natural number of more than 31 bits *)
(* is a sequence of limbs of LimbBits bits, least significant first and    *)
(* with no leading zero limb; a double is sign * man * 2^exp with man of   *)
(* exactly Precision bits, or zero.  Exponents stay far from the overflow  *)
(* and subnormal ranges for prices and percentages.                        *)
(***************************************************************************)
LimbBits == 15

LimbBase == 32768

\* bits of the significand of a double
Precision == 53

RECURSIVE Pow2(_)
Pow2(n) == IF n = 0 THEN 1 ELSE 2 * Pow2(n - 1)

RECURSIVE BitLenInt(_)
BitLenInt(n) == IF n = 0 THEN 0 ELSE 1 + BitLenInt(n \div 2)

RECURSIVE BigNorm(_)
BigNorm(a) ==
    IF a # << >> /\ a[Len(a)] = 0 THEN BigNorm(SubSeq(a, 1, Len(a) - 1)) ELSE a

RECURSIVE BigFromInt(_)
BigFromInt(n) == IF n = 0 THEN << >> ELSE << n % LimbBase >> \o BigFromInt(n \div LimbBase)

Limb(a, i) == IF i <= Len(a) THEN a[i] ELSE 0

RECURSIVE BigAddFrom(_, _, _, _)
BigAddFrom(a, b, i, carry) ==
    IF i > Len(a) /\ i > Len(b) THEN (IF carry = 0 THEN << >> ELSE << carry >>)
    ELSE LET t == Limb(a, i) + Limb(b, i) + carry
         IN << t % LimbBase >> \o BigAddFrom(a, b, i + 1, t \div LimbBase)

BigAdd(a, b) == BigAddFrom(a, b, 1, 0)

\* a - b for a >= b
RECURSIVE BigSubFrom(_, _, _, _)
BigSubFrom(a, b, i, borrow) ==
    IF i > Len(a) THEN << >>
    ELSE LET t == a[i] - Limb(b, i) - borrow
         IN << IF t < 0 THEN t + LimbBase ELSE t >>
            \o BigSubFrom(a, b, i + 1, IF t < 0 THEN 1 ELSE 0)

BigSub(a, b) == BigNorm(BigSubFrom(a, b, 1, 0))

\* -1, 0 or 1 as a is below, equal to or above b, from limb i down
RECURSIVE BigCmpFrom(_, _, _)
BigCmpFrom(a, b, i) ==
    IF i = 0 THEN 0
    ELSE IF a[i] < b[i] THEN -1
    ELSE IF a[i] > b[i] THEN 1
    ELSE BigCmpFrom(a, b, i - 1)

BigCmp(a, b) ==
    IF Len(a) < Len(b) THEN -1
    ELSE IF Len(a) > Len(b) THEN 1
    ELSE BigCmpFrom(a, b, Len(a))

\* a * d for a limb d
RECURSIVE BigMulSmallFrom(_, _, _, _)
BigMulSmallFrom(a, d, i, carry) ==
    IF i > Len(a) THEN (IF carry = 0 THEN << >> ELSE << carry >>)
    ELSE LET t == a[i] * d + carry
         IN << t % LimbBase >> \o BigMulSmallFrom(a, d, i + 1, t \div LimbBase)

BigMulSmall(a, d) == BigNorm(BigMulSmallFrom(a, d, 1, 0))

\* a * LimbBase^k
BigShiftLimbs(a, k) == IF a = << >> THEN << >> ELSE [i \in 1..k |-> 0] \o a

RECURSIVE BigMulFrom(_, _, _)
BigMulFrom(a, b, i) ==
    IF i > Len(b) THEN << >>
    ELSE BigAdd(BigShiftLimbs(BigMulSmall(a, b[i]), i - 1), BigMulFrom(a, b, i + 1))

BigMul(a, b) == BigMulFrom(a, b, 1)

\* quotient and remainder of a by d, 0 < d < LimbBase, from limb i down
RECURSIVE BigDivFrom(_, _, _, _)
BigDivFrom(a, d, i, r) ==
    IF i = 0 THEN [q |-> << >>, r |-> r]
    ELSE LET t == r * LimbBase + a[i]
             rest == BigDivFrom(a, d, i - 1, t % d)
         IN [q |-> Append(rest.q, t \div d), r |-> rest.r]

BigDivSmall(a, d) ==
    LET x == BigDivFrom(a, d, Len(a), 0) IN [q |-> BigNorm(x.q), r |-> x.r]

BigBitLen(a) ==
    IF a = << >> THEN 0 ELSE LimbBits * (Len(a) - 1) + BitLenInt(a[Len(a)])

\* a * 2^k
BigShl(a, k) == BigShiftLimbs(BigMulSmall(a, Pow2(k % LimbBits)), k \div LimbBits)

\* a \div 2^k
BigShr(a, k) ==
    IF k \div LimbBits >= Len(a) THEN << >>
    ELSE BigDivSmall(SubSeq(a, k \div LimbBits + 1, Len(a)), Pow2(k % LimbBits)).q

BigOdd(a) == a # << >> /\ a[1] % 2 = 1

F64Zero == [sign |-> 1, man |-> << >>, exp |-> 0]

\* the double nearest to sign * n * 2^e, ties to even
F64Round(sign, n, e) ==
    LET len == BigBitLen(n)
        k == len - Precision
        q == BigShr(n, k)
        r == BigSub(n, BigShl(q, k))
        half == BigCmp(r, BigShl(<< 1 >>, k - 1))
        up == half = 1 \/ (half = 0 /\ BigOdd(q))
        q2 == IF up THEN BigAdd(q, << 1 >>) ELSE q
    IN IF n = << >> THEN F64Zero
       ELSE IF k <= 0 THEN [sign |-> sign, man |-> BigShl(n, 0 - k), exp |-> e + k]
       ELSE IF BigBitLen(q2) > Precision
            THEN [sign |-> sign, man |-> BigShr(q2, 1), exp |-> e + k + 1]
       ELSE [sign |-> sign, man |-> q2, exp |-> e + k]

\* the double of an integer of at most 31 bits
F64FromInt(n) == F64Round(IF n < 0 THEN -1 ELSE 1, BigFromInt(IF n < 0 THEN 0 - n ELSE n), 0)

F64Neg(x) == IF x.man = << >> THEN x ELSE [x EXCEPT !.sign = 0 - x.sign]

\* x + y
F64Add(x, y) ==
    LET e == IF x.exp < y.exp THEN x.exp ELSE y.exp
        a == BigShl(x.man, x.exp - e)
        b == BigShl(y.man, y.exp - e)
        c == BigCmp(a, b)
    IN IF x.man = << >> THEN y
       ELSE IF y.man = << >> THEN x
       ELSE IF x.sign = y.sign THEN F64Round(x.sign, BigAdd(a, b), e)
       ELSE IF c = 0 THEN F64Zero
       ELSE IF c = 1 THEN F64Round(x.sign, BigSub(a, b), e)
       ELSE F64Round(y.sign, BigSub(b, a), e)

\* x - y
F64Sub(x, y) == F64Add(x, F64Neg(y))

\* x * y
F64Mul(x, y) == F64Round(x.sign * y.sign, BigMul(x.man, y.man), x.exp + y.exp)

\* x / d for an integer 0 < d < LimbBase: the quotient to two bits more than
\* a double holds, and below them one bit that tells whether anything is left
F64DivInt(x, d) ==
    LET qr == BigDivSmall(BigShl(x.man, LimbBits + 2), d)
        sticky == IF qr.r = 0 THEN << >> ELSE << 1 >>
    IN F64Round(x.sign, BigAdd(BigShl(qr.q, 1), sticky), x.exp - LimbBits - 3)

\* x < y
F64Less(x, y) == LET d == F64Sub(x, y) IN d.man # << >> /\ d.sign = -1

\* the double a decimal literal m / 10^e denotes
F64FromNum(v) == IF v.e = 0 THEN F64FromInt(v.m) ELSE F64DivInt(F64FromInt(v.m), Pow10(v.e))

(***************************************************************************)
(* Characters and the regular expressions of CURRENCY_PATTERNS.            *)
(***************************************************************************)
DigitVal == [c \in {"0", "1", "2", "3", "4", "5", "6", "7", "8", "9"} |->
               CASE c = "0" -> 0 [] c = "1" -> 1 [] c = "2" -> 2 [] c = "3" -> 3
                 [] c = "4" -> 4 [] c = "5" -> 5 [] c = "6" -> 6 [] c = "7" -> 7
                 [] c = "8" -> 8 [] c = "9" -> 9]

\* the class \d
IsDigit(c) == c \in DOMAIN DigitVal

\* the class \s (of the characters the model draws, only the blank)
IsSpace(c) == c = " "

\* is text[i] a digit (false past the end)
DigitAt(text, i) == i >= 1 /\ i <= Len(text) /\ IsDigit(text[i])

\* \s* from position i, greedy: the first position that holds no blank
RECURSIVE SkipSpaces(_, _)
SkipSpaces(text, i) ==
    IF i <= Len(text) /\ IsSpace(text[i]) THEN SkipSpaces(text, i + 1) ELSE i

\* \d* from position i, greedy: the first position that holds no digit
RECURSIVE DigitRunEnd(_, _)
DigitRunEnd(text, i) ==
    IF DigitAt(text, i) THEN DigitRunEnd(text, i + 1) ELSE i

\* AmountEnd with the fraction group left out of the pattern: (\d+)
AmountEnd_NoFraction(text, i) == DigitRunEnd(text, i)

\* (\d+(?:\.\d{2})?) from position i, where text[i] is a digit: the position
\* after the capture.  The fraction is optional and is taken when a point and
\* two digits follow the digit run.
AmountEnd(text, i) ==
    LET d == DigitRunEnd(text, i)
    IN IF d <= Len(text) /\ text[d] = "." /\ DigitAt(text, d + 1) /\ DigitAt(text, d + 2)
       THEN d + 3 ELSE d

\* CURRENCY_PATTERNS with the pattern without a symbol listed first
CURRENCY_PATTERNS_GenericFirst ==
    << [name |-> "GENERIC", symbol |-> ""],
       [name |-> "USD", symbol |-> "$"],
       [name |-> "EUR", symbol |-> "€"],
       [name |-> "INR", symbol |-> "₹"],
       [name |-> "GBP", symbol |-> "£"] >>

\* CURRENCY_PATTERNS without the pattern without a symbol
CURRENCY_PATTERNS_NoGeneric ==
    << [name |-> "USD", symbol |-> "$"],
       [name |-> "EUR", symbol |-> "€"],
       [name |-> "INR", symbol |-> "₹"],
       [name |-> "GBP", symbol |-> "£"] >>

\* The five patterns in the order Object.values enumerates them; symbol ""
\* is the pattern without a currency marker (and without \s*).
CURRENCY_PATTERNS ==
    << [name |-> "USD", symbol |-> "$"],
       [name |-> "EUR", symbol |-> "€"],
       [name |-> "INR", symbol |-> "₹"],
       [name |-> "GBP", symbol |-> "£"],
       [name |-> "GENERIC", symbol |-> ""] >>

\* CaptureStart for patterns whose fraction is not optional: (\d+\.\d{2})
CaptureStart_FractionRequired(pattern, text, i) ==
    LET s == IF pattern.symbol = "" THEN i ELSE SkipSpaces(text, i + 1)
        d == DigitRunEnd(text, s)
    IN IF /\ i <= Len(text)
          /\ (pattern.symbol = "" \/ text[i] = pattern.symbol)
          /\ DigitAt(text, s)
          /\ d <= Len(text) /\ text[d] = "." /\ DigitAt(text, d + 1) /\ DigitAt(text, d + 2)
       THEN s ELSE 0

\* where the capture group starts if the pattern matches at position i, 0 if
\* it does not match there
CaptureStart(pattern, text, i) ==
    IF pattern.symbol = ""
    THEN (IF DigitAt(text, i) THEN i ELSE 0)
    ELSE IF i <= Len(text) /\ text[i] = pattern.symbol /\ DigitAt(text, SkipSpaces(text, i + 1))
         THEN SkipSpaces(text, i + 1) ELSE 0

\* the positions at which the pattern matches
MatchPositions(pattern, text) ==
    {i \in 1..Len(text) : CaptureStart(pattern, text, i) # 0}

Min(S) == CHOOSE x \in S : \A y \in S : x <= y

\* text.match(pattern) without the g flag: capture group 1 of the leftmost
\* match, or <<>> when there is no match (match is null)
Match(pattern, text) ==
    IF MatchPositions(pattern, text) = {} THEN << >>
    ELSE LET s == CaptureStart(pattern, text, Min(MatchPositions(pattern, text)))
         IN SubSeq(text, s, AmountEnd(text, s) - 1)

\* the value of the digits text[from..to-1], read after the digits acc
RECURSIVE DigitsValue(_, _, _, _)
DigitsValue(text, from, to, acc) ==
    IF from >= to THEN acc
    ELSE DigitsValue(text, from + 1, to, 10 * acc + DigitVal[text[from]])

\* parseFloat: leading blanks, an optional sign, digits with an optional
\* fraction; the longest such prefix is parsed, NaN when it holds no digit
parseFloat(s) ==
    LET b == SkipSpaces(s, 1)
        neg == b <= Len(s) /\ s[b] = "-"
        i == IF b <= Len(s) /\ s[b] \in {"-", "+"} THEN b + 1 ELSE b
        d == DigitRunEnd(s, i)
        f == IF d <= Len(s) /\ s[d] = "." THEN DigitRunEnd(s, d + 1) ELSE d
        fracLen == IF f > d THEN f - d - 1 ELSE 0
        whole == DigitsValue(s, i, d, 0)
        all == IF f > d THEN DigitsValue(s, d + 1, f, whole) ELSE whole
    IN IF d = i /\ fracLen = 0 THEN NaN
       ELSE Normalize(IF neg THEN 0 - all ELSE all, fracLen)

\* text.match(/\d+\.?\d*/g) from position i on: the tokens left to right
RECURSIVE NumberTokens(_, _)
NumberTokens(text, i) ==
    IF i > Len(text) THEN << >>
    ELSE IF ~DigitAt(text, i) THEN NumberTokens(text, i + 1)
    ELSE LET d == DigitRunEnd(text, i)
             f == IF d <= Len(text) /\ text[d] = "." THEN DigitRunEnd(text, d + 1) ELSE d
         IN << SubSeq(text, i, f - 1) >> \o NumberTokens(text, f)

\* num > 0 && num < 10000
InPriceRange(v) == NumLess(Int2Num(0), v) /\ NumLess(v, Int2Num(10000))

\* the index in CURRENCY_PATTERNS, from k on, of the first pattern whose match
\* is accepted (match && match[1] && !isNaN(price)); 0 when the loop ends
RECURSIVE WinningPattern(_, _)
WinningPattern(text, k) ==
    IF k > Len(CURRENCY_PATTERNS) THEN 0
    ELSE IF Match(CURRENCY_PATTERNS[k], text) # << >>
            /\ ~isNaN(parseFloat(Match(CURRENCY_PATTERNS[k], text)))
         THEN k
         ELSE WinningPattern(text, k + 1)

\* the loop over Object.values(CURRENCY_PATTERNS): the price it returns, or
\* null when it falls through
CurrencyPass(text) ==
    IF WinningPattern(text, 1) = 0 THEN null
    ELSE parseFloat(Match(CURRENCY_PATTERNS[WinningPattern(text, 1)], text))

\* numbers.map(parseFloat).filter(range)
possiblePrices(text) ==
    LET numbers == NumberTokens(text, 1)
        parsed == [n \in 1..Len(numbers) |-> parseFloat(numbers[n])]
    IN SelectSeq(parsed, LAMBDA v : InPriceRange(v))

\* the fallback scan: the first token in the price range, or null
FallbackPass(text) ==
    IF Len(possiblePrices(text)) > 0 THEN possiblePrices(text)[1] ELSE null

\* extractPrice with the price range also required of a currency match
extractPrice_RangeChecked(text) ==
    IF CurrencyPass(text) # null /\ InPriceRange(CurrencyPass(text))
    THEN CurrencyPass(text) ELSE FallbackPass(text)

extractPrice(text) ==
    IF CurrencyPass(text) # null THEN CurrencyPass(text) ELSE FallbackPass(text)

(***************************************************************************)
(* State.                                                                  *)
(***************************************************************************)
VARIABLES
    text,             \* extractor specification: the text typed so far
    price,            \* extractor specification: the result of extractPrice(text)
    extractPc,        \* extractor specification: "input" or "done"
    isBillingOn,      \* useState(false)
    basket,           \* useState<Item[]>([])
    showCamera,       \* useState(false)
    cameraPermission, \* useState<boolean | null>(null): "null", "true", "false"
    discount,         \* useState(0)
    isScanning,       \* useState(false)
    scanError,        \* useState<string | null>(null), "null" for null
    manualPrice,      \* useState(''), a text
    showManualInput,  \* useState(false)
    srcObject,        \* videoRef.current.srcObject: a stream, 0 for none or no element
    streams,          \* the camera streams whose tracks are live
    workers,          \* OCR workers created and not terminated
    camRequests,      \* pending getUserMedia calls of requestCameraPermission
    ocrJobs,          \* processImage calls in flight, each with its closure's basket
    barRequests,      \* pending getUserMedia calls of startBarcodeScanner
    decodes,          \* pending decodeFromVideoElement promises
    now,              \* Date.now()
    frameW,           \* frame specification: canvas.width, 0 before the capture
    frameH,           \* frame specification: canvas.height
    imageData,        \* frame specification: imageData.data, four bytes a pixel
    prevData,         \* frame specification: imageData.data before the last pass
    passes,           \* frame specification: passes of the loop done so far
    lastOp            \* history: the last handler that ran and its argument

xvars == << text, price, extractPc >>

fvars == << frameW, frameH, imageData, prevData, passes >>

uivars == << isBillingOn, showCamera, cameraPermission, discount, isScanning,
             scanError, manualPrice, showManualInput >>

asyncvars == << srcObject, streams, workers, camRequests, ocrJobs, barRequests, decodes >>

avars == << basket, uivars, asyncvars, now, lastOp >>

vars == << xvars, fvars, avars >>

(***************************************************************************)
(* Program constants.                                                      *)
(***************************************************************************)
SAMPLE_ITEMS ==
    << [id |-> 1, name |-> "Apple", price |-> Normalize(50, 2)],
       [id |-> 2, name |-> "Banana", price |-> Normalize(30, 2)],
       [id |-> 3, name |-> "Orange", price |-> Normalize(60, 2)],
       [id |-> 4, name |-> "Milk", price |-> Normalize(299, 2)],
       [id |-> 5, name |-> "Bread", price |-> Normalize(199, 2)],
       [id |-> 6, name |-> "egg", price |-> Normalize(199, 2)] >>

\* 0.08
TAX_RATE == Normalize(8, 2)

\* the placeholder price of a barcode item, 9.99
BARCODE_PRICE == Normalize(999, 2)

\* Date.now() in the initial state; any value above the catalog ids
StartTime == 1000

(***************************************************************************)
(* Inputs the environment supplies.                                        *)
(***************************************************************************)
\* texts the OCR engine recognises
OcrTexts == { <<"0">>, <<"$", "5", ".", "5", "0">>, <<".">> }

\* values typed into the manual price input (type="number")
ManualTexts == { << >>, <<"0">>, <<"-", "5">>, <<"2", ".", "5">> }

\* values typed into the discount input
DiscountInputs == {-5, 10, 100, 150}

\* codes the barcode reader decodes
BarcodeCodes == {"4006381"}

(***************************************************************************)
(* Derived values of a render (App.tsx 59-62) and helpers.                 *)
(***************************************************************************)
\* basket.reduce((sum, item) => sum + item.price, 0)
RECURSIVE SumPrices(_)
SumPrices(items) ==
    IF items = << >> THEN Int2Num(0)
    ELSE NumAdd(SumPrices(SubSeq(items, 1, Len(items) - 1)), items[Len(items)].price)

subtotal == SumPrices(basket)

discountAmount == NumDiv100(NumMul(subtotal, Int2Num(discount)))

\* taxAmount taken on the subtotal before the discount
taxAmount_OnSubtotal == NumMul(subtotal, TAX_RATE)

taxAmount == NumMul(NumSub(subtotal, discountAmount), TAX_RATE)

totalBill == NumAdd(NumSub(subtotal, discountAmount), taxAmount)

\* the totals as the doubles the code computes: basket.reduce from 0, left
\* to right; prices and TAX_RATE are the doubles of their decimal literals
RECURSIVE Sum64(_)
Sum64(items) ==
    IF items = << >> THEN F64Zero
    ELSE F64Add(Sum64(SubSeq(items, 1, Len(items) - 1)), F64FromNum(items[Len(items)].price))

subtotal64 == Sum64(basket)

discountAmount64 == F64DivInt(F64Mul(subtotal64, F64FromInt(discount)), 100)

taxAmount64 == F64Mul(F64Sub(subtotal64, discountAmount64), F64FromNum(TAX_RATE))

totalBill64 == F64Add(F64Sub(subtotal64, discountAmount64), taxAmount64)

\* the video and canvas elements are rendered, so videoRef.current is set
videoMounted == showCamera /\ cameraPermission = "true"

\* a sequence without its i-th element
RemoveAt(s, i) == SubSeq(s, 1, i - 1) \o SubSeq(s, i + 1, Len(s))

\* a stream getUserMedia may hand out: one that no one holds
FreshStreams == (1..MaxStreams) \ (streams \cup {decodes[d].stream : d \in DOMAIN decodes})

\* the stream the next getUserMedia resolves with: streams are told apart by
\* identity only, so the fresh one of least number stands for all of them
NextStream == {s \in FreshStreams : \A t \in FreshStreams : s <= t}

\* [...items, item], the array addItemToBasket hands to setBasket when the
\* closure it runs in saw the basket items
addItemToBasket(items, item) == Append(items, item)

\* removeItemFromBasket filtering by value, item !== basket[index], which
\* drops every entry equal to the one clicked
removeItemFromBasket_ByValue(items, index) ==
    SelectSeq(items, LAMBDA it : it # items[index])

\* basket.filter((_, i) => i !== index), index counted from 1
removeItemFromBasket(items, index) ==
    LET keep == {i \in 1..Len(items) : i # index}
        RECURSIVE Pick(_)
        Pick(i) == IF i > Len(items) THEN << >>
                   ELSE IF i \in keep THEN << items[i] >> \o Pick(i + 1) ELSE Pick(i + 1)
    IN Pick(1)

\* Math.min(100, Math.max(0, Number(value)))
ClampDiscount(v) == IF v < 0 THEN 0 ELSE IF v > 100 THEN 100 ELSE v

(***************************************************************************)
(* Initial state: the component after its first render.                    *)
(***************************************************************************)
ExtractInit ==
    /\ text = << >>
    /\ price = null
    /\ extractPc = "input"

AppInit ==
    /\ isBillingOn = FALSE
    /\ basket = << >>
    /\ showCamera = FALSE
    /\ cameraPermission = "null"
    /\ discount = 0
    /\ isScanning = FALSE
    /\ scanError = "null"
    /\ manualPrice = << >>
    /\ showManualInput = FALSE
    /\ srcObject = 0
    /\ streams = {}
    /\ workers = 0
    /\ camRequests = 0
    /\ ocrJobs = << >>
    /\ barRequests = << >>
    /\ decodes = << >>
    /\ now = StartTime
    /\ lastOp = << "init", 0 >>

FrameInit ==
    /\ frameW = 0
    /\ frameH = 0
    /\ imageData = << >>
    /\ prevData = << >>
    /\ passes = 0

Init == ExtractInit /\ FrameInit /\ AppInit

(***************************************************************************)
(* The extractor on its own: any text of at most MaxLen characters of      *)
(* Alphabet is built up and handed to extractPrice.                        *)
(***************************************************************************)
Alphabet == {"$", "€", "₹", "£", "0", "5", ".", " "}

TypeChar(c) ==
    /\ extractPc = "input"
    /\ Len(text) < MaxLen
    /\ text' = Append(text, c)
    /\ UNCHANGED << price, extractPc, fvars, avars >>

RunExtract ==
    /\ extractPc = "input"
    /\ price' = extractPrice(text)
    /\ extractPc' = "done"
    /\ UNCHANGED << text, fvars, avars >>

ExtractNext == (\E c \in Alphabet : TypeChar(c)) \/ RunExtract

SpecExtract == Init /\ [][ExtractNext]_vars

(***************************************************************************)
(* The frame preprocessor on its own (captureImage, App.tsx 181-197): a    *)
(* frame of at most MaxPixels pixels drawn from FramePixels is read from   *)
(* the canvas and the contrast loop is run over it, and run again over its *)
(* own output.                                                             *)
(***************************************************************************)
\* pixels (r, g, b, a) the video frame is made of
FramePixels ==
    { << 0, 0, 0, 255 >>, << 128, 128, 128, 255 >>, << 128, 128, 129, 255 >>,
      << 255, 0, 129, 255 >>, << 255, 130, 0, 255 >>, << 255, 255, 255, 255 >>,
      << 200, 90, 10, 0 >> }

\* const threshold = 128
threshold == 128

\* the average truncated to an integer before it is compared
AvgGreater_Floor(r, g, b, t) == (r + g + b) \div 3 > t

\* avg > t for avg = (r + g + b) / 3, the exact quotient
AvgGreater(r, g, b, t) == r + g + b > 3 * t

\* value = avg > threshold ? 0 : 255, the branches exchanged
PixelValue_Inverted(r, g, b) == IF AvgGreater(r, g, b, threshold) THEN 0 ELSE 255

\* const value = avg > threshold ? 255 : 0
PixelValue(r, g, b) == IF AvgGreater(r, g, b, threshold) THEN 255 ELSE 0

\* the loop for (let i = 0; i < data.length; i += 4) from byte i on (i from 1)
RECURSIVE ContrastLoop(_, _)
ContrastLoop(data, i) ==
    IF i > Len(data) THEN data
    ELSE LET value == PixelValue(data[i], data[i + 1], data[i + 2])
         IN ContrastLoop([data EXCEPT ![i] = value, ![i + 1] = value, ![i + 2] = value], i + 4)

\* canvas.width = video.videoWidth; canvas.height = video.videoHeight
SetFrameSize(w, h) ==
    /\ frameW = 0
    /\ w * h <= MaxPixels
    /\ frameW' = w
    /\ frameH' = h
    /\ UNCHANGED << imageData, prevData, passes, xvars, avars >>

\* drawImage and getImageData: the next pixel of the frame
DrawPixel(p) ==
    /\ frameW > 0 /\ passes = 0
    /\ Len(imageData) < 4 * frameW * frameH
    /\ imageData' = imageData \o p
    /\ UNCHANGED << frameW, frameH, prevData, passes, xvars, avars >>

\* the contrast loop over the whole image, putImageData
PreprocessPass ==
    /\ frameW > 0
    /\ Len(imageData) = 4 * frameW * frameH
    /\ passes < MaxPasses
    /\ prevData' = imageData
    /\ imageData' = ContrastLoop(imageData, 1)
    /\ passes' = passes + 1
    /\ UNCHANGED << frameW, frameH, xvars, avars >>

FrameNext ==
    \/ \E w \in 1..MaxPixels, h \in 1..MaxPixels : SetFrameSize(w, h)
    \/ \E p \in FramePixels : DrawPixel(p)
    \/ PreprocessPass

SpecFrame == Init /\ [][FrameNext]_vars

(***************************************************************************)
(* The App component: one action per event handler or promise completion.  *)
(* A handler of a click reads the state of the current render; the code    *)
(* after an await reads the refs as they are then, and the basket of the   *)
(* render in which its handler was created.                                *)
(***************************************************************************)
\* the Billing ON/OFF button
ToggleBilling ==
    /\ lastOp' = << "ToggleBilling", 0 >>
    /\ isBillingOn' = ~isBillingOn
    /\ UNCHANGED << xvars, fvars, basket, showCamera, cameraPermission, discount, isScanning,
                    scanError, manualPrice, showManualInput, asyncvars, now >>

\* a catalog button: addItemToBasket(item)
AddCatalog(k) ==
    /\ lastOp' = << "AddCatalog", k >>
    /\ Len(basket) < MaxBasket
    /\ basket' = addItemToBasket(basket, SAMPLE_ITEMS[k])
    /\ UNCHANGED << xvars, fvars, uivars, asyncvars, now >>

\* the X button of basket row i
Remove(i) ==
    /\ lastOp' = << "Remove", i >>
    /\ i \in 1..Len(basket)
    /\ basket' = removeItemFromBasket(basket, i)
    /\ UNCHANGED << xvars, fvars, uivars, asyncvars, now >>

\* the discount input, shown when billing is on and the basket is not empty
SetDiscount(v) ==
    /\ lastOp' = << "SetDiscount", 0 >>
    /\ isBillingOn /\ Len(basket) > 0
    /\ discount' = ClampDiscount(v)
    /\ UNCHANGED << xvars, fvars, basket, isBillingOn, showCamera, cameraPermission, isScanning,
                    scanError, manualPrice, showManualInput, asyncvars, now >>

\* typing into the manual price input
SetManualPrice(v) ==
    /\ lastOp' = << "SetManualPrice", 0 >>
    /\ showManualInput
    /\ manualPrice' = v
    /\ UNCHANGED << xvars, fvars, basket, isBillingOn, showCamera, cameraPermission, discount,
                    isScanning, scanError, showManualInput, asyncvars, now >>

\* price >= 0 in place of price > 0
handleManualPriceSubmit_ZeroAccepted ==
    /\ lastOp' = << "handleManualPriceSubmit", 0 >>
    /\ showManualInput
    /\ LET p == parseFloat(manualPrice)
       IN IF ~isNaN(p) /\ ~NumLess(p, Int2Num(0))
          THEN /\ Len(basket) < MaxBasket
               /\ basket' = addItemToBasket(basket, [id |-> now, name |-> "Manual Item", price |-> p])
               /\ manualPrice' = << >>
               /\ showManualInput' = FALSE
               /\ scanError' = "null"
          ELSE /\ scanError' = "Please enter a valid price"
               /\ UNCHANGED << basket, manualPrice, showManualInput >>
    /\ UNCHANGED << xvars, fvars, isBillingOn, showCamera, cameraPermission, discount, isScanning,
                    asyncvars, now >>

\* the submit of the manual price form
handleManualPriceSubmit ==
    /\ lastOp' = << "handleManualPriceSubmit", 0 >>
    /\ showManualInput
    /\ LET p == parseFloat(manualPrice)
       IN IF ~isNaN(p) /\ NumLess(Int2Num(0), p)
          THEN /\ Len(basket) < MaxBasket
               /\ basket' = addItemToBasket(basket, [id |-> now, name |-> "Manual Item", price |-> p])
               /\ manualPrice' = << >>
               /\ showManualInput' = FALSE
               /\ scanError' = "null"
          ELSE /\ scanError' = "Please enter a valid price"
               /\ UNCHANGED << basket, manualPrice, showManualInput >>
    /\ UNCHANGED << xvars, fvars, isBillingOn, showCamera, cameraPermission, discount, isScanning,
                    asyncvars, now >>

\* the Scan Price button: requestCameraPermission up to its await
ClickScanPrice ==
    /\ lastOp' = << "ClickScanPrice", 0 >>
    /\ camRequests < MaxPending
    /\ camRequests' = camRequests + 1
    /\ UNCHANGED << xvars, fvars, basket, uivars, srcObject, streams, workers, ocrJobs,
                    barRequests, decodes, now >>

\* getUserMedia of requestCameraPermission resolves with stream s
CameraGranted(s) ==
    /\ lastOp' = << "CameraGranted", s >>
    /\ camRequests > 0
    /\ s \in NextStream
    /\ camRequests' = camRequests - 1
    /\ streams' = streams \cup {s}
    /\ srcObject' = IF videoMounted THEN s ELSE 0
    /\ cameraPermission' = "true"
    /\ showCamera' = TRUE
    /\ scanError' = "null"
    /\ showManualInput' = FALSE
    /\ UNCHANGED << xvars, fvars, basket, isBillingOn, discount, isScanning, manualPrice,
                    workers, ocrJobs, barRequests, decodes, now >>

\* getUserMedia of requestCameraPermission rejects
CameraDenied ==
    /\ lastOp' = << "CameraDenied", 0 >>
    /\ camRequests > 0
    /\ camRequests' = camRequests - 1
    /\ cameraPermission' = "false"
    /\ scanError' = "Camera access is required for item scanning."
    /\ showManualInput' = TRUE
    /\ srcObject' = 0
    /\ UNCHANGED << xvars, fvars, basket, isBillingOn, showCamera, discount, isScanning,
                    manualPrice, streams, workers, ocrJobs, barRequests, decodes, now >>

\* the capture button while the video element has no frame: no stream was
\* attached to it, or its metadata is not loaded yet.  videoWidth is 0, the
\* canvas is 0 x 0 and getImageData throws; captureImage ends before
\* processImage and no state is set
ClickCaptureNoFrame ==
    /\ lastOp' = << "ClickCaptureNoFrame", 0 >>
    /\ videoMounted /\ ~isScanning
    /\ UNCHANGED << xvars, fvars, basket, uivars, asyncvars, now >>

\* the capture button while the video element plays a live stream:
\* captureImage, then processImage up to createWorker
ClickCapture ==
    /\ lastOp' = << "ClickCapture", 0 >>
    /\ videoMounted /\ ~isScanning
    /\ srcObject # 0 /\ srcObject \in streams
    /\ isScanning' = TRUE
    /\ ocrJobs' = Append(ocrJobs, [basket |-> basket, phase |-> "create", text |-> << >>])
    /\ UNCHANGED << xvars, fvars, basket, isBillingOn, showCamera, cameraPermission, discount,
                    scanError, manualPrice, showManualInput, srcObject, streams, workers,
                    camRequests, barRequests, decodes, now >>

\* createWorker resolves; loadLanguage, initialize and setParameters follow
OcrWorkerCreated(j) ==
    /\ lastOp' = << "OcrWorkerCreated", j >>
    /\ j \in DOMAIN ocrJobs /\ ocrJobs[j].phase = "create"
    /\ workers < MaxWorkers
    /\ workers' = workers + 1
    /\ ocrJobs' = [ocrJobs EXCEPT ![j].phase = "recognize"]
    /\ UNCHANGED << xvars, fvars, basket, uivars, srcObject, streams, camRequests, barRequests,
                    decodes, now >>

\* worker.recognize resolves with text t; worker.terminate is awaited
OcrRecognized(j, t) ==
    /\ lastOp' = << "OcrRecognized", j >>
    /\ j \in DOMAIN ocrJobs /\ ocrJobs[j].phase = "recognize"
    /\ ocrJobs' = [ocrJobs EXCEPT ![j].phase = "terminate", ![j].text = t]
    /\ UNCHANGED << xvars, fvars, basket, uivars, srcObject, streams, workers, camRequests,
                    barRequests, decodes, now >>

\* worker.terminate resolves: the rest of processImage
OcrTerminated(j) ==
    /\ lastOp' = << "OcrTerminated", j >>
    /\ j \in DOMAIN ocrJobs /\ ocrJobs[j].phase = "terminate"
    /\ workers' = workers - 1
    /\ ocrJobs' = RemoveAt(ocrJobs, j)
    /\ isScanning' = FALSE
    /\ LET p == extractPrice(ocrJobs[j].text)
       IN IF p # null
          THEN /\ Len(ocrJobs[j].basket) < MaxBasket
               /\ basket' = addItemToBasket(ocrJobs[j].basket,
                                            [id |-> now, name |-> "Scanned Item", price |-> p])
               /\ scanError' = "null"
               /\ showCamera' = FALSE
               /\ srcObject' = 0
               /\ UNCHANGED showManualInput
          ELSE /\ scanError' = "Could not detect a valid price. Please try again or enter manually."
               /\ showManualInput' = TRUE
               /\ UNCHANGED << basket, showCamera, srcObject >>
    /\ UNCHANGED << xvars, fvars, isBillingOn, cameraPermission, discount, manualPrice, streams,
                    camRequests, barRequests, decodes, now >>

\* the catch block of processImage without setShowManualInput(true)
OcrThrow_NoManualInput(j) ==
    /\ lastOp' = << "OcrThrow", j >>
    /\ j \in DOMAIN ocrJobs /\ ocrJobs[j].phase \in {"create", "recognize"}
    /\ ocrJobs' = RemoveAt(ocrJobs, j)
    /\ scanError' = "Error processing the image. Please try again or enter manually."
    /\ isScanning' = FALSE
    /\ UNCHANGED << xvars, fvars, basket, isBillingOn, showCamera, cameraPermission, discount,
                    manualPrice, showManualInput, srcObject, streams, workers, camRequests,
                    barRequests, decodes, now >>

\* createWorker, loadLanguage, initialize, setParameters or recognize throws
OcrThrow(j) ==
    /\ lastOp' = << "OcrThrow", j >>
    /\ j \in DOMAIN ocrJobs /\ ocrJobs[j].phase \in {"create", "recognize"}
    /\ ocrJobs' = RemoveAt(ocrJobs, j)
    /\ scanError' = "Error processing the image. Please try again or enter manually."
    /\ showManualInput' = TRUE
    /\ isScanning' = FALSE
    /\ UNCHANGED << xvars, fvars, basket, isBillingOn, showCamera, cameraPermission, discount,
                    manualPrice, srcObject, streams, workers, camRequests, barRequests,
                    decodes, now >>

\* the close button of the camera view
ClickClose ==
    /\ lastOp' = << "ClickClose", 0 >>
    /\ videoMounted
    /\ showCamera' = FALSE
    /\ streams' = streams \ {srcObject}
    /\ srcObject' = 0
    /\ UNCHANGED << xvars, fvars, basket, isBillingOn, cameraPermission, discount, isScanning,
                    scanError, manualPrice, showManualInput, workers, camRequests, ocrJobs,
                    barRequests, decodes, now >>

\* the Scan Barcode button: startBarcodeScanner up to its await, or to its
\* return when there is no video element
ClickScanBarcode ==
    /\ lastOp' = << "ClickScanBarcode", 0 >>
    /\ showCamera' = TRUE
    /\ scanError' = "null"
    /\ IF videoMounted
       THEN /\ Len(barRequests) < MaxDecodes
            /\ barRequests' = Append(barRequests, [basket |-> basket])
       ELSE UNCHANGED barRequests
    /\ UNCHANGED << xvars, fvars, basket, isBillingOn, cameraPermission, discount, isScanning,
                    manualPrice, showManualInput, srcObject, streams, workers, camRequests,
                    ocrJobs, decodes, now >>

\* getUserMedia of startBarcodeScanner resolves with stream s: the stream is
\* attached and the decode started, or, the video element being gone, the
\* assignment throws and the catch block runs
BarcodeCameraGranted(r, s) ==
    /\ lastOp' = << "BarcodeCameraGranted", s >>
    /\ r \in DOMAIN barRequests
    /\ s \in NextStream
    /\ barRequests' = RemoveAt(barRequests, r)
    /\ streams' = streams \cup {s}
    /\ IF videoMounted
       THEN /\ Len(decodes) < MaxDecodes
            /\ srcObject' = s
            /\ decodes' = Append(decodes, [basket |-> barRequests[r].basket, stream |-> s])
            /\ UNCHANGED scanError
       ELSE /\ scanError' = "Failed to initialize barcode scanner"
            /\ UNCHANGED << srcObject, decodes >>
    /\ UNCHANGED << xvars, fvars, basket, isBillingOn, showCamera, cameraPermission, discount,
                    isScanning, manualPrice, showManualInput, workers, camRequests, ocrJobs, now >>

\* getUserMedia of startBarcodeScanner rejects
BarcodeCameraDenied(r) ==
    /\ lastOp' = << "BarcodeCameraDenied", r >>
    /\ r \in DOMAIN barRequests
    /\ barRequests' = RemoveAt(barRequests, r)
    /\ scanError' = "Failed to initialize barcode scanner"
    /\ UNCHANGED << xvars, fvars, basket, isBillingOn, showCamera, cameraPermission, discount,
                    isScanning, manualPrice, showManualInput, srcObject, streams, workers,
                    camRequests, ocrJobs, decodes, now >>

\* decodeFromVideoElement resolves with a result whose text is code
DecodeResolved(d, code) ==
    /\ lastOp' = << "DecodeResolved", d >>
    /\ d \in DOMAIN decodes
    /\ Len(decodes[d].basket) < MaxBasket
    /\ decodes' = RemoveAt(decodes, d)
    /\ basket' = addItemToBasket(decodes[d].basket,
                                 [id |-> now, name |-> "Item (" \o code \o ")",
                                  price |-> BARCODE_PRICE])
    /\ showCamera' = FALSE
    /\ streams' = streams \ {decodes[d].stream}
    /\ srcObject' = 0
    /\ UNCHANGED << xvars, fvars, isBillingOn, cameraPermission, discount, isScanning, scanError,
                    manualPrice, showManualInput, workers, camRequests, ocrJobs,
                    barRequests, now >>

\* decodeFromVideoElement rejects
DecodeRejected(d) ==
    /\ lastOp' = << "DecodeRejected", d >>
    /\ d \in DOMAIN decodes
    /\ decodes' = RemoveAt(decodes, d)
    /\ scanError' = "Failed to scan barcode. Please try again."
    /\ UNCHANGED << xvars, fvars, basket, isBillingOn, showCamera, cameraPermission, discount,
                    isScanning, manualPrice, showManualInput, srcObject, streams, workers,
                    camRequests, ocrJobs, barRequests, now >>

\* a millisecond passes
Tick ==
    /\ lastOp' = << "Tick", 0 >>
    /\ now < StartTime + MaxTick
    /\ now' = now + 1
    /\ UNCHANGED << xvars, fvars, basket, uivars, asyncvars >>

Next ==
    \/ ToggleBilling
    \/ \E k \in 1..MaxCatalog : AddCatalog(k)
    \/ \E i \in 1..MaxBasket : Remove(i)
    \/ \E v \in DiscountInputs : SetDiscount(v)
    \/ \E v \in ManualTexts : SetManualPrice(v)
    \/ handleManualPriceSubmit
    \/ ClickScanPrice
    \/ \E s \in 1..MaxStreams : CameraGranted(s)
    \/ CameraDenied
    \/ ClickCaptureNoFrame
    \/ ClickCapture
    \/ \E j \in 1..MaxPending : OcrWorkerCreated(j)
    \/ \E j \in 1..MaxPending, t \in OcrTexts : OcrRecognized(j, t)
    \/ \E j \in 1..MaxPending : OcrTerminated(j)
    \/ \E j \in 1..MaxPending : OcrThrow(j)
    \/ ClickClose
    \/ ClickScanBarcode
    \/ \E r \in 1..MaxDecodes, s \in 1..MaxStreams : BarcodeCameraGranted(r, s)
    \/ \E r \in 1..MaxDecodes : BarcodeCameraDenied(r)
    \/ \E d \in 1..MaxDecodes, code \in BarcodeCodes : DecodeResolved(d, code)
    \/ \E d \in 1..MaxDecodes : DecodeRejected(d)
    \/ Tick

Spec == Init /\ [][Next]_vars

(***************************************************************************)
(* Slices of Next.  The billing switch and the discount are read by no     *)
(* scan handler, and the scan state is read by no ledger handler, so each  *)
(* slice leaves the other part of the state in its initial value.          *)
(***************************************************************************)
\* the ledger: catalog and manual adds, removal, billing and discount
LedgerNext ==
    \/ ToggleBilling
    \/ \E k \in 1..MaxCatalog : AddCatalog(k)
    \/ \E i \in 1..MaxBasket : Remove(i)
    \/ \E v \in DiscountInputs : SetDiscount(v)
    \/ ClickScanPrice
    \/ CameraDenied
    \/ \E v \in ManualTexts : SetManualPrice(v)
    \/ handleManualPriceSubmit
    \/ Tick

SpecLedger == Init /\ [][LedgerNext]_vars

\* the bill: every catalog button, removal, the billing toggle and the
\* discount input
BillNext ==
    \/ ToggleBilling
    \/ \E k \in DOMAIN SAMPLE_ITEMS : AddCatalog(k)
    \/ \E i \in 1..MaxBasket : Remove(i)
    \/ \E v \in DiscountInputs : SetDiscount(v)

SpecBill == Init /\ [][BillNext]_vars

\* the price scan: camera and OCR next to catalog adds and removal
ScanNext ==
    \/ \E k \in 1..MaxCatalog : AddCatalog(k)
    \/ \E i \in 1..MaxBasket : Remove(i)
    \/ ClickScanPrice
    \/ \E s \in 1..MaxStreams : CameraGranted(s)
    \/ CameraDenied
    \/ ClickCaptureNoFrame
    \/ ClickCapture
    \/ \E j \in 1..MaxPending : OcrWorkerCreated(j)
    \/ \E j \in 1..MaxPending, t \in OcrTexts : OcrRecognized(j, t)
    \/ \E j \in 1..MaxPending : OcrTerminated(j)
    \/ \E j \in 1..MaxPending : OcrThrow(j)
    \/ ClickClose
    \/ Tick

SpecScan == Init /\ [][ScanNext]_vars

\* the barcode scan next to catalog adds
BarcodeNext ==
    \/ \E k \in 1..MaxCatalog : AddCatalog(k)
    \/ ClickScanPrice
    \/ \E s \in 1..MaxStreams : CameraGranted(s)
    \/ ClickClose
    \/ ClickScanBarcode
    \/ \E r \in 1..MaxDecodes, s \in 1..MaxStreams : BarcodeCameraGranted(r, s)
    \/ \E r \in 1..MaxDecodes : BarcodeCameraDenied(r)
    \/ \E d \in 1..MaxDecodes, code \in BarcodeCodes : DecodeResolved(d, code)
    \/ \E d \in 1..MaxDecodes : DecodeRejected(d)

SpecBarcode == Init /\ [][BarcodeNext]_vars

(***************************************************************************)
(* Properties of extractPrice, checked under SpecExtract.  They are stated *)
(* on the characters of the text, apart from the operators the extractor   *)
(* is built from.                                                          *)
(***************************************************************************)
done == extractPc = "done"

\* the currency symbols in the order of their patterns
Symbols == << "$", "€", "₹", "£" >>

HasDigit(t) == \E i \in 1..Len(t) : IsDigit(t[i])

AllDigits(t) == Len(t) >= 1 /\ \A i \in 1..Len(t) : IsDigit(t[i])

\* the positions of symbol c followed, after blanks only, by a digit
QualifiedAt(c, t) ==
    {i \in 1..Len(t) : /\ t[i] = c
                       /\ \E j \in (i + 1)..Len(t) :
                            IsDigit(t[j]) /\ \A k \in (i + 1)..(j - 1) : t[k] = " "}

\* the first digit after position i
FirstDigitAfter(t, i) == Min({j \in (i + 1)..Len(t) : IsDigit(t[j])})

\* the end of the digits that start at j
RunEnd(t, j) == Min({k \in j..(Len(t) + 1) : k = Len(t) + 1 \/ ~IsDigit(t[k])})

\* the amount that starts at digit j: its digits, with ".dd" when that follows
AmountAt(t, j) ==
    LET d == RunEnd(t, j)
    IN IF d + 2 <= Len(t) /\ t[d] = "." /\ IsDigit(t[d + 1]) /\ IsDigit(t[d + 2])
       THEN Normalize(100 * DigitsValue(t, j, d, 0) + DigitsValue(t, d + 1, d + 3, 0), 2)
       ELSE Int2Num(DigitsValue(t, j, d, 0))

\* the first symbol, in pattern order, that qualifies an amount in t; 0 if none
FirstSymbol(t) ==
    IF \A k \in 1..Len(Symbols) : QualifiedAt(Symbols[k], t) = {} THEN 0
    ELSE Min({k \in 1..Len(Symbols) : QualifiedAt(Symbols[k], t) # {}})

\* C1: when the text holds an amount qualified by a currency symbol, the
\* result is the amount after the first symbol in the order $, €, ₹, £ that
\* qualifies one, whatever bare numbers stand before or after it; the pattern
\* without a symbol decides only when no symbol qualifies an amount.
C1_SymbolAmountWins ==
    done =>
        /\ FirstSymbol(text) # 0 =>
             /\ WinningPattern(text, 1) = FirstSymbol(text)
             /\ price = AmountAt(text, FirstDigitAfter(text, Min(QualifiedAt(Symbols[FirstSymbol(text)], text))))
        /\ (FirstSymbol(text) = 0 /\ HasDigit(text)) =>
             CURRENCY_PATTERNS[WinningPattern(text, 1)].name = "GENERIC"

\* a bare number stands before the symbol-qualified amount and is not returned
C1_Witness ==
    /\ done
    /\ FirstSymbol(text) # 0
    /\ IsDigit(text[1])
    /\ price # AmountAt(text, 1)

\* D is digits, a point and two digits
TwoFractionDigits(D) ==
    /\ Len(D) >= 4
    /\ D[Len(D) - 2] = "."
    /\ AllDigits(SubSeq(D, 1, Len(D) - 3))
    /\ IsDigit(D[Len(D) - 1]) /\ IsDigit(D[Len(D)])

\* the decimal value of such a D
DecimalValue(D) ==
    Normalize(100 * DigitsValue(D, 1, Len(D) - 2, 0) + DigitsValue(D, Len(D) - 1, Len(D) + 1, 0), 2)

\* C2: for each of the five patterns and each D of the form digits, point,
\* two digits, extractPrice(symbol + D) is the decimal value of D.
C2_SymbolPlusTwoDecimals ==
    done =>
        /\ TwoFractionDigits(text) => price = DecimalValue(text)
        /\ \A k \in 1..Len(Symbols) :
             (Len(text) >= 1 /\ text[1] = Symbols[k] /\ TwoFractionDigits(Tail(text)))
                => price = DecimalValue(Tail(text))

C2_Witness ==
    /\ done
    /\ Len(text) = 5 /\ text[1] = "₹" /\ TwoFractionDigits(Tail(text))
    /\ price = Normalize(55, 1)

\* the text is a currency symbol and digits with no fraction or one fraction digit
SymbolShortFraction(t) ==
    /\ Len(t) >= 2
    /\ \E k \in 1..Len(Symbols) : t[1] = Symbols[k]
    /\ \/ AllDigits(Tail(t))
       \/ /\ Len(t) >= 4
          /\ t[Len(t) - 1] = "." /\ IsDigit(t[Len(t)])
          /\ AllDigits(SubSeq(t, 2, Len(t) - 2))

\* C3 as stated: a symbol with an amount of zero or one fraction digit matches
\* no currency pattern, and the result is that of the fallback scan.
C3_Original ==
    (done /\ SymbolShortFraction(text)) =>
        (WinningPattern(text, 1) = 0 /\ price = FallbackPass(text))

\* C3 amended: such a text matches the pattern of its symbol on the digits
\* before the point; the result is their value, also when it is 0 or 10000 and
\* more, and the fallback scan is not consulted.
C3_ShortFractionMatchesSymbol ==
    (done /\ SymbolShortFraction(text)) =>
        /\ WinningPattern(text, 1) # 0
        /\ text[1] = Symbols[WinningPattern(text, 1)]
        /\ price = Int2Num(DigitsValue(text, 2, RunEnd(text, 2), 0))

\* one fraction digit, dropped by the currency pattern and kept by the scan
C3_Witness ==
    /\ done
    /\ SymbolShortFraction(text)
    /\ text[Len(text) - 1] = "."
    /\ FallbackPass(text) # null
    /\ price # FallbackPass(text)

\* C4: a text with an amount is never answered by null, whatever the amount:
\* "€0.00" gives 0, and a result outside 0 < v < 10000 is given only when a
\* currency pattern won; a result of the fallback scan is inside the range.
C4_CurrencyMatchNotRangeChecked ==
    done =>
        /\ (FirstSymbol(text) # 0 \/ HasDigit(text)) => price.kind = "num"
        /\ text = << "€", "0", ".", "0", "0" >> => price = Int2Num(0)
        /\ (price # null /\ ~InPriceRange(price)) => WinningPattern(text, 1) # 0
        /\ (price # null /\ WinningPattern(text, 1) = 0) => InPriceRange(price)

\* a currency symbol with an amount outside the range, returned as it is
C4_Witness ==
    /\ done
    /\ FirstSymbol(text) # 0
    /\ price.kind = "num"
    /\ ~InPriceRange(price)

\* C5: the result is null exactly for the texts without a digit, and null
\* is given only when both passes found no candidate.
C5_NullIffNoDigit ==
    done =>
        /\ (price = null) <=> ~HasDigit(text)
        /\ price = null => (CurrencyPass(text) = null /\ FallbackPass(text) = null)

\* a text of symbols and points without a digit
C5_Witness ==
    /\ done
    /\ Len(text) >= 3 /\ text[1] = "$"
    /\ price = null

\* the text is one number: digits, or digits, a point and digits
OneNumber(t) ==
    \/ AllDigits(t)
    \/ \E p \in 2..(Len(t) - 1) :
         t[p] = "." /\ AllDigits(SubSeq(t, 1, p - 1)) /\ AllDigits(SubSeq(t, p + 1, Len(t)))

\* the value of such a text
NumberValue(t) ==
    IF AllDigits(t) THEN Int2Num(DigitsValue(t, 1, Len(t) + 1, 0))
    ELSE LET p == CHOOSE q \in 1..Len(t) : t[q] = "."
         IN Normalize(DigitsValue(t, p + 1, Len(t) + 1, DigitsValue(t, 1, p, 0)), Len(t) - p)

\* C6 as stated: the leftmost match of the winning pattern gives the result,
\* and a text that is one number in (0, 10000) gives that number.
C6_Original ==
    done =>
        /\ FirstSymbol(text) # 0 =>
             price = AmountAt(text, FirstDigitAfter(text, Min(QualifiedAt(Symbols[FirstSymbol(text)], text))))
        /\ (FirstSymbol(text) = 0 /\ HasDigit(text)) =>
             price = AmountAt(text, Min({j \in 1..Len(text) : IsDigit(text[j])}))
        /\ (OneNumber(text) /\ InPriceRange(NumberValue(text))) => price = NumberValue(text)

(***************************************************************************)
(* Properties of the basket ledger and of the adds of the App component.   *)
(***************************************************************************)
\* C7 as stated: every item in the basket has a price p with 0 < p < 10000.
C7_Original == \A i \in DOMAIN basket : InPriceRange(basket[i].price)

\* a step that is an accepted add: a catalog click, a manual submit that
\* parses to a positive number, an OCR completion with a price, a decode
AcceptedAdd ==
    \/ \E k \in 1..MaxCatalog : AddCatalog(k)
    \/ handleManualPriceSubmit /\ showManualInput' = FALSE
    \/ \E j \in 1..MaxPending : OcrTerminated(j) /\ extractPrice(ocrJobs[j].text) # null
    \/ \E d \in 1..MaxDecodes, code \in BarcodeCodes : DecodeResolved(d, code)

\* C8 as stated: every accepted add appends one item at the end of the basket
\* as it stands at that moment and leaves the items in it in place, also when
\* it is the completion of a recognition started before other adds and removes.
C8_Original ==
    [][AcceptedAdd =>
          /\ Len(basket') = Len(basket) + 1
          /\ SubSeq(basket', 1, Len(basket)) = basket]_vars

\* C9: remove(i) on a basket of n items leaves n - 1 items: the entries before
\* i as they were, each entry after i one place down, every remaining entry
\* with its id, name and price.
C9_RemoveFrame ==
    [][\A i \in 1..MaxBasket :
          Remove(i) =>
             /\ Len(basket') = Len(basket) - 1
             /\ \A j \in 1..Len(basket') :
                  basket'[j] = IF j < i THEN basket[j] ELSE basket[j + 1]]_vars

\* the first of several items was removed and the rest moved down
C9_Witness ==
    /\ lastOp = << "Remove", 1 >>
    /\ Len(basket) >= 1

\* a number as an integer count of millionths
Micro(v) == v.m * Pow10(6 - v.e)

RECURSIVE MicroSum(_)
MicroSum(items) ==
    IF items = << >> THEN 0 ELSE Micro(Head(items).price) + MicroSum(Tail(items))

\* C10: the totals of a render are subtotal = sum of prices, discountAmount =
\* subtotal * discount / 100, taxAmount = (subtotal - discountAmount) * 0.08,
\* total = subtotal - discountAmount + taxAmount, exactly; for the basket
\* [0.50, 0.30] with discount 10 they are 0.80, 0.08, 0.0576 and 0.7776.
C10_Totals ==
    /\ Micro(subtotal) = MicroSum(basket)
    /\ 100 * Micro(discountAmount) = Micro(subtotal) * discount
    /\ 100 * Micro(taxAmount) = (Micro(subtotal) - Micro(discountAmount)) * 8
    /\ Micro(totalBill) = Micro(subtotal) - Micro(discountAmount) + Micro(taxAmount)
    /\ ( /\ Len(basket) = 2
         /\ basket[1].price = Normalize(50, 2) /\ basket[2].price = Normalize(30, 2)
         /\ discount = 10 )
       => /\ subtotal = Normalize(80, 2)
          /\ discountAmount = Normalize(8, 2)
          /\ taxAmount = Normalize(576, 4)
          /\ totalBill = Normalize(7776, 4)

\* the totals panel shows the basket [0.50, 0.30] with discount 10
C10_Witness ==
    /\ isBillingOn
    /\ Len(basket) = 2
    /\ basket[1].price = Normalize(50, 2) /\ basket[2].price = Normalize(30, 2)
    /\ discount = 10
    /\ totalBill = Normalize(7776, 4)

(***************************************************************************)
(* Properties of the frame preprocessor, checked under SpecFrame.          *)
(***************************************************************************)
\* the pixels of an image of four bytes a pixel
PixelsOf(data) == 1..(Len(data) \div 4)

\* C11: the contrast loop run over its own output returns that output, byte
\* for byte, for every frame.
C11_BinarizeIdempotent ==
    passes >= 2 => imageData = prevData

\* a second pass was run over an image with a white and a black pixel
C11_Witness ==
    /\ passes = 2
    /\ Len(imageData) = 8
    /\ imageData[1] = 255 /\ imageData[5] = 0
    /\ imageData = prevData

\* the colour bytes of pixel k of an image
Colours(data, k) == << data[4 * k - 3], data[4 * k - 2], data[4 * k - 1] >>

\* the sum of the colour bytes of pixel k: three times their unweighted average
ColourSum(data, k) == data[4 * k - 3] + data[4 * k - 2] + data[4 * k - 1]

\* C20: for every frame of at least 1 x 1 pixels the preprocessing loop gives
\* an image of the same dimensions in which the three colour channels of a
\* pixel are all 255 when the unweighted average of its R, G and B is strictly
\* above 128 and all 0 otherwise; every colour channel of the output is 0 or 255.
C20_Binarized ==
    passes = 1 =>
        /\ Len(imageData) = 4 * frameW * frameH
        /\ Len(imageData) = Len(prevData)
        /\ \A k \in PixelsOf(prevData) :
              /\ Colours(imageData, k) =
                    IF ColourSum(prevData, k) > 3 * 128
                    THEN << 255, 255, 255 >> ELSE << 0, 0, 0 >>
              /\ \A c \in 1..3 : Colours(imageData, k)[c] \in {0, 255}

\* a frame of a pixel averaging 128 1/3 and a pixel averaging exactly 128 was
\* preprocessed once
C20_Witness ==
    /\ passes = 1
    /\ Len(prevData) = 8
    /\ ColourSum(prevData, 1) = 385 /\ ColourSum(prevData, 2) = 384
    /\ Colours(imageData, 1) = << 255, 255, 255 >>
    /\ Colours(imageData, 2) = << 0, 0, 0 >>

(***************************************************************************)
(* Resources and concurrency of the scan paths, checked under SpecScan and *)
(* SpecBarcode.                                                            *)
(***************************************************************************)
\* C12: the OCR worker is terminated on every exit path of processImage: when
\* no recognition attempt is in progress no worker is alive.
C12_Original ==
    ocrJobs = << >> => workers = 0

\* no camera request, recognition or barcode decode is pending
NoAttempt ==
    /\ camRequests = 0
    /\ ocrJobs = << >>
    /\ barRequests = << >>
    /\ decodes = << >>

\* C13: every camera stream acquired by requestCameraPermission or
\* startBarcodeScanner is released on every exit path: the camera view is
\* never closed, with no attempt in progress, while an acquired stream is live.
C13_Original ==
    (~showCamera /\ NoAttempt) => streams = {}

\* C14: the close button of the camera view stops every acquired stream,
\* attached to the video element or not, scan in flight or not: right after
\* the dismissal no acquired stream is live.
C14_Original ==
    lastOp[1] = "ClickClose" => streams = {}

\* C15: a recognition that completes after the camera view was dismissed
\* (the view is still closed when it completes) is discarded: it adds no item
\* and changes neither the scan error nor the manual-entry state.
C15_Original ==
    [][(~showCamera /\ lastOp'[1] \in {"OcrTerminated", "OcrThrow"})
        => /\ basket' = basket
           /\ scanError' = scanError
           /\ showManualInput' = showManualInput]_vars

\* C16: at most one OCR recognition and at most one barcode decode is in
\* flight in every reachable state.
C16_Original ==
    /\ Len(ocrJobs) <= 1
    /\ Len(decodes) <= 1

\* the step is a barcode decode that resolves
DecodeSuccessStep == lastOp'[1] = "DecodeResolved"

\* the step is a decode that rejects or a scanner start that fails
BarcodeFailureStep ==
    \/ lastOp'[1] \in {"DecodeRejected", "BarcodeCameraDenied"}
    \/ lastOp'[1] = "BarcodeCameraGranted" /\ decodes' = decodes

\* C21: a successful barcode decode adds exactly one item, named after the
\* decoded code and priced 9.99, to the basket, closes the camera view and
\* stops its stream; a failed decode or a failed scanner start adds no item
\* and sets a scan error; a click on Scan Barcode leaves either a scanner
\* start under way (which ends in a decode or an error) or a scan error shown.
C21_Original ==
    [][/\ DecodeSuccessStep
          => /\ Len(basket') = Len(basket) + 1
             /\ SubSeq(basket', 1, Len(basket)) = basket
             /\ basket'[Len(basket')].name = "Item (4006381)"
             /\ basket'[Len(basket')].price = Normalize(999, 2)
             /\ ~showCamera'
             /\ decodes[lastOp'[2]].stream \notin streams'
       /\ BarcodeFailureStep
          => /\ basket' = basket
             /\ scanError' # "null"
       /\ lastOp'[1] = "ClickScanBarcode"
          => \/ barRequests' # << >>
             \/ decodes' # << >>
             \/ scanError' # "null"]_vars

(***************************************************************************)
(* Error handling of the scan and manual-entry paths.                      *)
(***************************************************************************)
\* the step is the end of a recognition whose text holds no price
NoPriceStep ==
    /\ lastOp'[1] = "OcrTerminated"
    /\ extractPrice(ocrJobs[lastOp'[2]].text) = null

\* C17: a denied camera permission, a recognition that throws and a
\* recognition that finds no price each leave the basket as it is, set a
\* non-empty scan error and open the manual-entry input; when a recognition
\* attempt ends, whatever its outcome, isScanning is false.
C17_ScanFailures ==
    [][/\ (lastOp'[1] \in {"CameraDenied", "OcrThrow"} \/ NoPriceStep)
          => /\ basket' = basket
             /\ scanError' # "null" /\ scanError' # ""
             /\ showManualInput'
       /\ lastOp'[1] \in {"OcrTerminated", "OcrThrow"} => ~isScanning']_vars

\* a recognition found no price while the basket held an item
C17_Witness ==
    /\ lastOp[1] = "OcrTerminated"
    /\ scanError = "Could not detect a valid price. Please try again or enter manually."
    /\ showManualInput /\ ~isScanning
    /\ basket # << >>

\* the text in the manual input parses to a number above 0
ValidManualPrice ==
    ~isNaN(parseFloat(manualPrice)) /\ NumLess(Int2Num(0), parseFloat(manualPrice))

\* C18: submitting a manual text that does not parse to a number above 0
\* (empty, zero, negative) adds no item, leaves the basket and the typed text
\* as they are, keeps the manual input open and sets a scan error; submitting a
\* positive number appends exactly one 'Manual Item' of that price, clears the
\* typed text and the error and closes the manual input.
C18_ManualSubmit ==
    [][lastOp'[1] = "handleManualPriceSubmit"
        => IF ValidManualPrice
           THEN /\ Len(basket') = Len(basket) + 1
                /\ SubSeq(basket', 1, Len(basket)) = basket
                /\ basket'[Len(basket')].name = "Manual Item"
                /\ basket'[Len(basket')].price = parseFloat(manualPrice)
                /\ manualPrice' = << >>
                /\ scanError' = "null"
                /\ ~showManualInput'
           ELSE /\ basket' = basket
                /\ manualPrice' = manualPrice
                /\ showManualInput'
                /\ scanError' # "null"]_vars

\* 2.5 was submitted with an item in the basket already
C18_Witness ==
    /\ lastOp[1] = "handleManualPriceSubmit"
    /\ Len(basket) = 2
    /\ basket[2].name = "Manual Item" /\ basket[2].price = Normalize(25, 1)
    /\ manualPrice = << >> /\ ~showManualInput /\ scanError = "null"

(***************************************************************************)
(* The basket's items.                                                     *)
(***************************************************************************)
\* C19: item ids are unique within the basket after any sequence of adds
\* (catalog clicks, scans, barcode, manual entry) and removes.
C19_Original ==
    \A i, j \in DOMAIN basket : i # j => basket[i].id # basket[j].id

(***************************************************************************)
(* The discount and the totals, checked under SpecBill.                    *)
(***************************************************************************)
\* C22: the discount held in state is within [0,100] after any sequence of
\* discount edits, and in every reachable state the totals the code computes
\* satisfy 0 <= discountAmount <= subtotal and total >= 0.
C22_Original ==
    /\ discount >= 0 /\ discount <= 100
    /\ ~F64Less(discountAmount64, F64Zero)
    /\ ~F64Less(subtotal64, discountAmount64)
    /\ ~F64Less(totalBill64, F64Zero)
====
